---------------------------- MODULE Spec2Model ----------------------------
(***************************************************************************)
(* A model of LahMa: the configuration loader (core/config.py), the        *)
(* logging setup (core/logger.py), the command dispatcher (lahma.py) and   *)
(* the modules it dispatches to.                                           *)
(*                                                                         *)
(* Python values are tagged records (PyVal); a nested configuration        *)
(* mapping is a function from dotted key paths to PyVal, a path that holds *)
(* a nested mapping carrying the value Map and its children living under   *)
(* "<path>.<key>".  Python's None in a string-typed slot is PyNone.        *)
(***************************************************************************)
EXTENDS Integers, Sequences, FiniteSets, TLC

VARIABLES
    exists,           \* the paths for which os.path.exists is true
    content,          \* what reading and parsing the resolved file gives
    environ,          \* os.environ, restricted to the two API-key names
    config_path_arg,  \* the explicit path (--config), or PyNone
    log_level,        \* --log-level, or PyNone
    log_file,         \* --log-file, or PyNone
    mode,             \* the module named on the command line
    host,             \* import-time facts: which third-party libraries exist
    found,            \* outcome of the last find_config_file call
    loaded,           \* outcome of the last load_config call (ctx.obj["CONFIG"])
    stage,            \* the dispatcher's stage
    exit_code,        \* the process exit code, -1 while the process runs
    failure,          \* where the run failed and with which exception
    logging,          \* the root logger: its sinks, its level, the calls made
    run_calls,        \* the modules' run functions invoked so far
    module_result,    \* how the module's run function ended
    default_timeout,  \* socket.getdefaulttimeout()
    chk,              \* the activation of check_esxi_target
    esxi,             \* the ESXi module's run: its position and results
    fuzz,             \* the web fuzzer's run: the child processes spawned
    honeypot,         \* the honeypot module: the last generate_bait_rules call
    reloaded          \* outcome of a second load_config call, same inputs

inputVars == <<exists, content, environ, config_path_arg, log_level, log_file, mode, host>>
loaderVars == <<found, loaded, reloaded>>
dispatchVars == <<stage, exit_code, failure, run_calls, module_result>>
esxiVars == <<default_timeout, chk, esxi>>

vars == <<inputVars, loaderVars, dispatchVars, logging, esxiVars, fuzz, honeypot>>

-----------------------------------------------------------------------------
(* Python values *)

PyNone == "<None>"

PyNull == [ty |-> "null", s |-> "", n |-> 0, items |-> <<>>]
PyStr(x) == [ty |-> "str", s |-> x, n |-> 0, items |-> <<>>]
PyInt(k) == [ty |-> "int", s |-> "", n |-> k, items |-> <<>>]
PyBool(b) == [ty |-> "bool", s |-> "", n |-> IF b THEN 1 ELSE 0, items |-> <<>>]
PyList(xs) == [ty |-> "list", s |-> "", n |-> 0, items |-> xs]
PyDict == [ty |-> "map", s |-> "", n |-> 0, items |-> <<>>]

\* bool(v) for a value that is not a mapping
Truthy(v) ==
    CASE v.ty = "null" -> FALSE
      [] v.ty = "str" -> v.s # ""
      [] v.ty = "int" -> v.n # 0
      [] v.ty = "bool" -> v.n # 0
      [] v.ty = "list" -> v.items # <<>>
      [] OTHER -> TRUE

\* bool(s) for s a str or None
StrTruthy(s) == s # PyNone /\ s # ""

EmptyDict == [p \in {} |-> PyNull]

-----------------------------------------------------------------------------
(* core/config.py: the recognized keys *)

ROOT == ""

CONFIG_DIR == "config"
DEFAULT_CONFIG_FILENAME == "config.yaml"
DEFAULT_CONFIG_PATH == "config/config.yaml"
example_path == "config/config.example.yaml"

Sections == {"logging", "openai", "esxi_tester", "web_fuzzer", "web_fuzzer.nuclei", "tor"}

\* the keys load_config fills, in the order of its setdefault calls:
\* <<parent, path, default>>
Defaults ==
    << <<ROOT, "logging", PyDict>>,
       <<"logging", "logging.level", PyStr("INFO")>>,
       <<"logging", "logging.file", PyStr("lahma.log")>>,
       <<ROOT, "openai", PyDict>>,
       <<"openai", "openai.model", PyStr("gpt-3.5-turbo")>>,
       <<"openai", "openai.request_timeout", PyInt(60)>>,
       <<ROOT, "esxi_tester", PyDict>>,
       <<"esxi_tester", "esxi_tester.targets", PyList(<<>>)>>,
       <<"esxi_tester", "esxi_tester.check_timeout", PyInt(10)>>,
       <<ROOT, "web_fuzzer", PyDict>>,
       <<"web_fuzzer", "web_fuzzer.target_url", PyNull>>,
       <<"web_fuzzer", "web_fuzzer.nuclei", PyDict>>,
       <<"web_fuzzer.nuclei", "web_fuzzer.nuclei.templates_path", PyNull>>,
       <<"web_fuzzer.nuclei", "web_fuzzer.nuclei.extra_flags", PyStr("-silent")>>,
       <<"web_fuzzer.nuclei", "web_fuzzer.nuclei.process_timeout", PyInt(600)>>,
       <<ROOT, "tor", PyDict>>,
       <<"tor", "tor.enabled", PyBool(FALSE)>>,
       <<"tor", "tor.control_port", PyInt(9051)>>,
       <<"tor", "tor.control_password", PyNull>> >>

API_KEY == "openai.api_key"

\* the index in Defaults of setdefault('openai', {}), after which the
\* environment override runs
OpenAiStep == CHOOSE i \in 1..Len(Defaults) : Defaults[i][2] = "openai"

RecognizedKeys == {Defaults[i][2] : i \in 1..Len(Defaults)} \ Sections

StepOf(path) == CHOOSE i \in 1..Len(Defaults) : Defaults[i][2] = path

ParentOf(path) == IF path = API_KEY THEN "openai" ELSE Defaults[StepOf(path)][1]

DefaultOf(path) == Defaults[StepOf(path)][3]

-----------------------------------------------------------------------------
(* core/config.py: find_config_file *)

Returned(v) == [status |-> "ok", value |-> v, exc |-> "", text |-> "", about |-> ""]
Raised(e, t, a) == [status |-> "raise", value |-> PyNone, exc |-> e, text |-> t, about |-> a]
NotCalled == [status |-> "none", value |-> PyNone, exc |-> "", text |-> "", about |-> ""]

\* the fallback order swapped: the example file is looked up first
find_config_file_ExampleFirst(arg, ex) ==
    IF StrTruthy(arg)
    THEN IF arg \in ex
         THEN Returned(arg)
         ELSE Raised("ConfigError", "Config file specified via --config does not exist: ", arg)
    ELSE IF example_path \in ex THEN Returned(example_path)
    ELSE IF DEFAULT_CONFIG_PATH \in ex THEN Returned(DEFAULT_CONFIG_PATH)
    ELSE Returned(PyNone)

find_config_file(arg, ex) ==
    IF StrTruthy(arg)
    THEN IF arg \in ex
         THEN Returned(arg)
         ELSE Raised("ConfigError", "Config file specified via --config does not exist: ", arg)
    ELSE IF DEFAULT_CONFIG_PATH \in ex THEN Returned(DEFAULT_CONFIG_PATH)
    ELSE IF example_path \in ex THEN Returned(example_path)
    ELSE Returned(PyNone)

-----------------------------------------------------------------------------
(* core/config.py: load_config *)

LoadOk(cfg) == [status |-> "ok", config |-> cfg, exc |-> "", text |-> "", about |-> ""]
LoadRaised(e, t, a) == [status |-> "raise", config |-> EmptyDict, exc |-> e, text |-> t, about |-> a]
LoadNotCalled == [status |-> "none", config |-> EmptyDict, exc |-> "", text |-> "", about |-> ""]

\* os.environ.get(name)
EnvGet(env, name) == IF name \in DOMAIN env THEN env[name] ELSE PyNone

\* the default written by "config[key] = config.get(key) or default": a
\* present falsy value is replaced
SetDefaultStep_OrDefault(st, i) ==
    LET parent == Defaults[i][1]
        path == Defaults[i][2]
    IN  IF st.status # "ok" THEN st
        ELSE IF parent # ROOT /\ st.config[parent].ty # "map"
        THEN LoadRaised("AttributeError", "object has no attribute 'setdefault'", parent)
        ELSE IF path \in DOMAIN st.config /\ Truthy(st.config[path]) THEN st
        ELSE [st EXCEPT !.config = (path :> Defaults[i][3]) @@ [q \in DOMAIN @ \ {path} |-> @[q]]]

\* config[parent].setdefault(key, default), the i-th of load_config's calls:
\* a parent that is not a dict has no setdefault; a present key is kept
SetDefaultStep(st, i) ==
    LET parent == Defaults[i][1]
        path == Defaults[i][2]
    IN  IF st.status # "ok" THEN st
        ELSE IF parent # ROOT /\ st.config[parent].ty # "map"
        THEN LoadRaised("AttributeError", "object has no attribute 'setdefault'", parent)
        ELSE IF path \in DOMAIN st.config THEN st
        ELSE [st EXCEPT !.config = (path :> Defaults[i][3]) @@ @]

\* the two variable names consulted in the other order
EnvOverride_OpenAiFirst(st, env) ==
    LET common == EnvGet(env, "OPENAI_API_KEY")
        openai_api_key_env == IF StrTruthy(common) THEN common ELSE EnvGet(env, "LAHMA_OPENAI_API_KEY")
    IN  IF st.status # "ok" THEN st
        ELSE IF StrTruthy(openai_api_key_env)
        THEN IF st.config["openai"].ty # "map"
             THEN LoadRaised("TypeError", "object does not support item assignment", "openai")
             ELSE [st EXCEPT !.config = (API_KEY :> PyStr(openai_api_key_env)) @@ @]
        ELSE IF st.config["openai"].ty # "map"
             THEN LoadRaised("AttributeError", "object has no attribute 'get'", "openai")
             ELSE st

\* the environment override of openai.api_key
EnvOverride(st, env) ==
    LET lahma == EnvGet(env, "LAHMA_OPENAI_API_KEY")
        openai_api_key_env == IF StrTruthy(lahma) THEN lahma ELSE EnvGet(env, "OPENAI_API_KEY")
    IN  IF st.status # "ok" THEN st
        ELSE IF StrTruthy(openai_api_key_env)
        THEN IF st.config["openai"].ty # "map"
             THEN LoadRaised("TypeError", "object does not support item assignment", "openai")
             ELSE [st EXCEPT !.config = (API_KEY :> PyStr(openai_api_key_env)) @@ @]
        ELSE IF st.config["openai"].ty # "map"
             THEN LoadRaised("AttributeError", "object has no attribute 'get'", "openai")
             ELSE st

RECURSIVE FillDefaults(_, _, _)
FillDefaults(st, i, env) ==
    IF i > Len(Defaults) THEN st
    ELSE LET s1 == SetDefaultStep(st, i)
             s2 == IF i = OpenAiStep THEN EnvOverride(s1, env) ELSE s1
         IN  FillDefaults(s2, i + 1, env)

\* the parser's error left unwrapped, and a parsed list kept as the
\* configuration
ReadConfigFile_Unwrapped(path, cont) ==
    CASE cont.kind = "mapping" -> LoadOk(cont.doc)
      [] cont.kind \in {"empty", "scalar"} -> LoadOk(EmptyDict)
      [] cont.kind = "list" -> LoadRaised("AttributeError", "object has no attribute 'setdefault'", path)
      [] cont.kind = "yaml_error" -> LoadRaised("YAMLError", "", path)
      [] cont.kind = "io_error" -> LoadRaised("ConfigError", "Cannot read config file ", path)
      [] OTHER -> LoadRaised("ConfigError", "Unexpected error loading config ", path)

\* what open() and yaml.safe_load() give for the resolved file
ReadConfigFile(path, cont) ==
    CASE cont.kind = "mapping" -> LoadOk(cont.doc)
      [] cont.kind \in {"empty", "scalar", "list"} -> LoadOk(EmptyDict)
      [] cont.kind = "yaml_error" -> LoadRaised("ConfigError", "Invalid YAML syntax in ", path)
      [] cont.kind = "io_error" -> LoadRaised("ConfigError", "Cannot read config file ", path)
      [] OTHER -> LoadRaised("ConfigError", "Unexpected error loading config ", path)

load_config(arg, ex, cont, env) ==
    LET config_file_to_load == find_config_file(arg, ex)
    IN  IF config_file_to_load.status = "raise"
        THEN LoadRaised(config_file_to_load.exc, config_file_to_load.text,
                        config_file_to_load.about)
        ELSE LET base == IF StrTruthy(config_file_to_load.value)
                         THEN ReadConfigFile(config_file_to_load.value, cont)
                         ELSE LoadOk(EmptyDict)
             IN  FillDefaults(base, 1, env)

-----------------------------------------------------------------------------
(* core/exceptions.py, and the built-in classes the handlers name *)

\* the classes an exception of class c is an instance of
Ancestors(c) ==
    {c, "Exception"} \cup
    CASE c \in {"ConfigError", "EnvironmentError", "ModuleError", "ApiError"} -> {"LahMaError"}
      [] c \in {"HoneypotError", "EsxiTesterError", "WebFuzzerError"} -> {"ModuleError", "LahMaError"}
      [] c \in {"socket.timeout", "TimeoutError", "socket.gaierror", "socket.herror"} -> {"OSError"}
      [] c = "ConnectionRefusedError" -> {"ConnectionError", "OSError"}
      [] c \in {"FileNotFoundError", "PermissionError"} -> {"OSError"}
      [] c \in {"CalledProcessError", "TimeoutExpired"} -> {"SubprocessError"}
      [] OTHER -> {}

\* isinstance(e, classes) for e of class c
IsInstance(c, classes) == Ancestors(c) \cap classes # {}

-----------------------------------------------------------------------------
(* core/logger.py: setup_logging *)

log_format == "%(asctime)s - %(name)s - %(levelname)s - %(message)s"

NoLogging == [handlers |-> <<>>, root_level |-> 30, calls |-> <<>>]

\* str.upper() on the level names of the model
Upper(str) ==
    CASE str = "debug" -> "DEBUG"
      [] str = "info" -> "INFO"
      [] str = "verbose" -> "VERBOSE"
      [] str = "basic_format" -> "BASIC_FORMAT"
      [] OTHER -> str

\* getattr(logging, NAME, logging.INFO): a level number, or for
\* BASIC_FORMAT the logging module's format string
LoggingAttr(name) ==
    CASE name = "DEBUG" -> PyInt(10)
      [] name = "INFO" -> PyInt(20)
      [] name = "WARNING" -> PyInt(30)
      [] name = "ERROR" -> PyInt(40)
      [] name = "CRITICAL" -> PyInt(50)
      [] name = "BASIC_FORMAT" -> PyStr("%(levelname)s:%(name)s:%(message)s")
      [] OTHER -> PyInt(20)

LogReturned(lg) == [status |-> "ok", exc |-> "", logging |-> lg]
LogRaised(e, lg) == [status |-> "raise", exc |-> e, logging |-> lg]

\* logging.basicConfig(level, format, stream): does nothing once the root
\* logger has a handler; otherwise adds the console handler and then sets
\* the level, which must be a level
basicConfig(lg, level) ==
    IF lg.handlers # <<>> THEN LogReturned(lg)
    ELSE LET with == [lg EXCEPT !.handlers = <<[kind |-> "console", dir |-> "", name |-> "stdout",
                                                fmt |-> log_format]>>]
         IN  IF level.ty = "int" THEN LogReturned([with EXCEPT !.root_level = level.n])
             ELSE LogRaised("ValueError", with)

\* setup_logging(log_level_str, log_file_name); where is what the file
\* system allows: "log_dir" (LOG_DIR writable), "home" (only the home
\* directory writable), "unwritable" (neither), "open_fails"
setup_logging(lg0, log_level_str, log_file_name, where) ==
    LET lg == [lg0 EXCEPT !.calls = Append(@, [level |-> log_level_str, file |-> log_file_name])]
    IN  IF log_level_str.ty # "str" THEN LogRaised("AttributeError", lg)
        ELSE LET basic == basicConfig(lg, LoggingAttr(Upper(log_level_str.s)))
             IN  IF basic.status = "raise" THEN basic
                 ELSE IF ~Truthy(log_file_name) THEN basic
                 ELSE IF log_file_name.ty # "str" THEN LogRaised("TypeError", basic.logging)
                 ELSE IF where \in {"unwritable", "open_fails"} THEN basic
                 ELSE LogReturned([basic.logging EXCEPT !.handlers =
                         Append(@, [kind |-> "file",
                                    dir |-> IF where = "log_dir" THEN "LOG_DIR" ELSE "HOME",
                                    name |-> log_file_name.s, fmt |-> log_format])])

FileSystemCases == {"log_dir", "home", "unwritable", "open_fails"}

-----------------------------------------------------------------------------
(* modules/esxi_tester: check_esxi_target *)

\* socket.setdefaulttimeout(t): None or a non-negative number
ValidTimeout(t) == t.ty = "null" \/ (t.ty \in {"int", "bool"} /\ t.n >= 0)

SetTimeoutError(t) == IF t.ty \in {"int", "bool"} THEN "ValueError" ELSE "TypeError"

\* the value socket.getdefaulttimeout() gives after setdefaulttimeout(t)
AsTimeout(t) == IF t.ty = "null" THEN PyNull ELSE PyInt(t.n)

Message(prefix, detail) == [prefix |-> prefix, detail |-> detail]

NoMessage == Message("", "")

\* nothing came back from the connect call yet
NoOutcome == [session |-> FALSE, about |-> FALSE, exc |-> ""]

ChkIdle ==
    [pc |-> "idle", host |-> <<>>, port |-> 0, timeout |-> PyNull,
     original_timeout |-> PyNull, outcome |-> NoOutcome, service_instance |-> FALSE,
     status |-> "none", exc |-> "", success |-> FALSE, message |-> NoMessage,
     disconnects |-> 0, disconnect_warned |-> FALSE]

\* lines 58-71: the SDK guard, then the process-wide timeout is saved and
\* overridden.  Gives <<activation, default timeout>>.
CheckBegin(host_, port_, timeout_, sdk, current) ==
    LET act == [ChkIdle EXCEPT !.host = host_, !.port = port_, !.timeout = timeout_]
    IN  IF ~sdk
        THEN <<[act EXCEPT !.pc = "returned", !.status = "raise", !.exc = "EnvironmentError"], current>>
        ELSE IF ~ValidTimeout(timeout_)
        THEN <<[act EXCEPT !.pc = "returned", !.status = "raise", !.exc = SetTimeoutError(timeout_),
                           !.original_timeout = current], current>>
        ELSE <<[act EXCEPT !.pc = "connect", !.original_timeout = current], AsTimeout(timeout_)>>

\* what the remote end can do to lines 77-89: SmartConnect raises (no
\* session), returns nothing, or returns a session; with a session, the
\* "about" descriptor is there, is absent, or its retrieval faults
ConnectOutcomes ==
    {[session |-> TRUE, about |-> TRUE, exc |-> ""],
     [session |-> TRUE, about |-> FALSE, exc |-> ""],
     [session |-> TRUE, about |-> FALSE, exc |-> "MethodFault"]}
    \cup {[session |-> FALSE, about |-> FALSE, exc |-> e] :
            e \in {"", "MethodFault", "socket.timeout", "socket.gaierror",
                   "ConnectionRefusedError", "OSError", "ValueError"}}

\* the except clauses of lines 100-122, in order
ExceptClauses ==
    << [classes |-> {"MethodFault"}, prefix |-> "VMware API error: "],
       [classes |-> {"socket.timeout", "TimeoutError"}, prefix |-> "Connection timed out after "],
       [classes |-> {"socket.gaierror", "socket.herror"}, prefix |-> "DNS resolution error: "],
       [classes |-> {"ConnectionRefusedError", "OSError"}, prefix |-> "Connection error: "],
       [classes |-> {"Exception"}, prefix |-> "An unexpected error occurred during connection: "] >>

\* the clause that handles an exception of class e: the first that matches
Handler(e) ==
    ExceptClauses[CHOOSE i \in 1..Len(ExceptClauses) :
        /\ IsInstance(e, ExceptClauses[i].classes)
        /\ \A j \in 1..(i - 1) : ~IsInstance(e, ExceptClauses[j].classes)]

\* lines 77-89: the exception the try block raises, "" when it raises none.
\* With a session, about_info.version is read from the descriptor: an
\* absent descriptor is None, and the attribute read raises AttributeError
TryRaises(outcome) ==
    IF outcome.exc # "" THEN outcome.exc
    ELSE IF outcome.session /\ ~outcome.about THEN "AttributeError"
    ELSE ""

\* lines 73-122: the try block and its handlers fix the pair returned
CheckConnect(act, outcome) ==
    LET decided == [act EXCEPT !.pc = "cleanup", !.status = "ok", !.outcome = outcome,
                               !.service_instance = outcome.session]
        raised == TryRaises(outcome)
    IN  IF raised # ""
        THEN [decided EXCEPT !.success = FALSE,
                             !.message = Message(Handler(raised).prefix, raised)]
        ELSE IF outcome.session
        THEN [decided EXCEPT !.success = TRUE, !.message = Message("Successfully connected. ", "")]
        ELSE [decided EXCEPT !.success = FALSE,
                             !.message = Message("Connection attempt returned no service instance.", "")]

\* the timeout restored on the success path only
CheckCleanup_RestoreOnSuccess(act, disconnect_fails) ==
    <<[act EXCEPT !.pc = "returned",
                  !.disconnects = IF act.service_instance THEN @ + 1 ELSE @,
                  !.disconnect_warned = act.service_instance /\ disconnect_fails],
      IF act.success THEN act.original_timeout ELSE AsTimeout(act.timeout)>>

\* a failing disconnect let out of the function
CheckCleanup_DisconnectRaises(act, disconnect_fails) ==
    <<[act EXCEPT !.pc = "returned",
                  !.status = IF act.service_instance /\ disconnect_fails THEN "raise" ELSE @,
                  !.exc = IF act.service_instance /\ disconnect_fails THEN "Exception" ELSE @,
                  !.disconnects = IF act.service_instance THEN @ + 1 ELSE @,
                  !.disconnect_warned = FALSE],
      act.original_timeout>>

\* lines 124-133: the finally block: disconnect an established session
\* (a failure of which is logged only), then restore the saved timeout.
\* Gives <<activation, default timeout>>.
CheckCleanup(act, disconnect_fails) ==
    <<[act EXCEPT !.pc = "returned",
                  !.disconnects = IF act.service_instance THEN @ + 1 ELSE @,
                  !.disconnect_warned = act.service_instance /\ disconnect_fails],
      act.original_timeout>>

-----------------------------------------------------------------------------
(* modules/esxi_tester: run *)

Digits == {"0", "1", "2", "3", "4", "5", "6", "7", "8", "9"}

\* ':' in host
HasColon(str) == \E i \in 1..Len(str) : str[i] = ":"

FirstColon(str) == CHOOSE i \in 1..Len(str) : str[i] = ":" /\ \A j \in 1..(i - 1) : str[j] # ":"

\* the target string kept whole as the host
SplitHost_Whole(str) == str

\* host.split(':', 1)
SplitHost(str) == SubSeq(str, 1, FirstColon(str) - 1)
SplitPort(str) == SubSeq(str, FirstColon(str) + 1, Len(str))

\* int(port_str) succeeds: an optional sign, then digits
IsIntLiteral(str) ==
    LET body == IF str # <<>> /\ str[1] \in {"+", "-"} THEN Tail(str) ELSE str
    IN  body # <<>> /\ \A i \in 1..Len(body) : body[i] \in Digits

DigitValue(ch) == CHOOSE d \in 0..9 : <<"0", "1", "2", "3", "4", "5", "6", "7", "8", "9">>[d + 1] = ch

RECURSIVE Decimal(_)
Decimal(str) == IF str = <<>> THEN 0 ELSE 10 * Decimal(SubSeq(str, 1, Len(str) - 1)) + DigitValue(str[Len(str)])

\* int(port_str)
IntOf(str) ==
    IF str[1] = "-" THEN 0 - Decimal(Tail(str))
    ELSE IF str[1] = "+" THEN Decimal(Tail(str))
    ELSE Decimal(str)

\* list entries that are no strings, each given by the characters of its
\* str(): the mapping {'h': 8} (what YAML makes of "- h: 8") and the list
\* ['h'].  Neither can be a key of the results dict: results[target_entry]
\* raises TypeError (unhashable type)
UnhashableEntries ==
    { <<"{", "'", "h", "'", ":", " ", "8", "}">>, <<"[", "'", "h", "'", "]">> }

\* the value of a key already present left as it is
DictSet_KeepFirst(results, key, value) ==
    IF \E i \in 1..Len(results) : results[i].target = key
    THEN results
    ELSE Append(results, [target |-> key, success |-> value[1], message |-> value[2]])

\* results[key] = value on an insertion-ordered dict, kept as a sequence
DictSet(results, key, value) ==
    IF \E i \in 1..Len(results) : results[i].target = key
    THEN [i \in 1..Len(results) |->
            IF results[i].target = key THEN [target |-> key, success |-> value[1], message |-> value[2]]
            ELSE results[i]]
    ELSE Append(results, [target |-> key, success |-> value[1], message |-> value[2]])

\* checks: the calls of check_esxi_target made so far, each with the
\* position in targets of the entry it is for (0 for a direct call);
\* connects: the same position for each SmartConnect call made so far;
\* outcomes: the pair assigned to results for each entry processed so far
EsxiIdle ==
    [pc |-> "idle", targets |-> <<>>, timeout |-> PyNull, i |-> 0, results |-> <<>>,
     checks |-> <<>>, connects |-> <<>>, outcomes |-> <<>>, successful_checks |-> 0, failed_checks |-> 0]

-----------------------------------------------------------------------------
(* modules/honeypot and modules/web_fuzzer *)

ModReturned == [status |-> "ok", exc |-> "", text |-> ""]
ModRaised(e, t) == [status |-> "raise", exc |-> e, text |-> t]
ModNotRun == [status |-> "none", exc |-> "", text |-> ""]

\* config.get(key) on the loaded configuration
ConfigGet(cfg, path) == IF path \in DOMAIN cfg THEN cfg[path] ELSE PyNull

\* section.get(key, default)
ConfigGetOr(cfg, path, default) == IF path \in DOMAIN cfg THEN cfg[path] ELSE default

GenReturned(rules) == [status |-> "ok", exc |-> "", rules |-> rules]
GenRaised(e) == [status |-> "raise", exc |-> e, rules |-> <<>>]
GenNotCalled == [status |-> "none", exc |-> "", rules |-> <<>>]

\* nothing generated yet
HoneypotIdle ==
    [pc |-> "idle", target_tech |-> PyNull, api_key |-> PyNull, model |-> PyNull,
     generated |-> GenNotCalled, deployed |-> 0]

\* the f-string of line 126, as the sequence of its pieces
DecoyContent(target_tech) == <<"Placeholder ", target_tech, " Banner - Welcome!">>

\* the library guard dropped: a key without the library gives no rule
generate_bait_rules_SilentFallback(target_tech, api_key, model, OPENAI_AVAILABLE) ==
    IF Truthy(api_key) /\ ~OPENAI_AVAILABLE
    THEN GenReturned(<<>>)
    ELSE GenReturned(<< [rule_id |-> "placeholder_001", target_tech |-> target_tech,
                         type |-> "banner_grab", decoy_content |-> DecoyContent(target_tech),
                         action |-> "log_connection"] >>)

\* honeypot.generate_bait_rules (lines 59-130): the library guard, then the
\* hard-coded list of one rule; the model name is only logged
generate_bait_rules(target_tech, api_key, model, OPENAI_AVAILABLE) ==
    IF Truthy(api_key) /\ ~OPENAI_AVAILABLE
    THEN GenRaised("EnvironmentError")
    ELSE GenReturned(<< [rule_id |-> "placeholder_001", target_tech |-> target_tech,
                         type |-> "banner_grab", decoy_content |-> DecoyContent(target_tech),
                         action |-> "log_connection"] >>)

\* honeypot.run, lines 169-178: the arguments it reads from the configuration
HoneypotArgs(cfg) ==
    [target_tech |-> ConfigGetOr(cfg, "honeypot.target_tech_simulation", PyStr("Generic Service")),
     api_key |-> ConfigGet(cfg, API_KEY),
     model |-> ConfigGetOr(cfg, "openai.model", PyStr("gpt-3.5-turbo"))]

\* honeypot.run: a honeypot section that is no mapping has no get;
\* generate_bait_rules' EnvironmentError is re-raised as a HoneypotError;
\* deploy_honeypot only logs
honeypot_run(cfg, OPENAI_AVAILABLE) ==
    IF "honeypot" \in DOMAIN cfg /\ cfg["honeypot"].ty # "map"
    THEN ModRaised("AttributeError", "object has no attribute 'get'")
    ELSE LET args == HoneypotArgs(cfg)
             generated == generate_bait_rules(args.target_tech, args.api_key, args.model,
                                              OPENAI_AVAILABLE)
         IN  IF generated.status = "raise"
             THEN IF IsInstance(generated.exc, {"ApiError", "EnvironmentError"})
                  THEN ModRaised("HoneypotError", "Rule generation failed: ")
                  ELSE ModRaised(generated.exc, "")
             ELSE ModReturned

\* what running a child process did: the exception subprocess.run raised
\* by itself, or the exit code of the child
Exited(code) == [exc |-> "", returncode |-> code]
Failed(e) == [exc |-> e, returncode |-> 0]

CheckOutcomes ==
    {Exited(0), Exited(2), Failed("FileNotFoundError"), Failed("TimeoutExpired"),
     Failed("PermissionError")}

\* subprocess.run(..., check=check): the exception it raises, "" for none
subprocess_run(outcome, check) ==
    IF outcome.exc # "" THEN outcome.exc
    ELSE IF check /\ outcome.returncode # 0 THEN "CalledProcessError"
    ELSE ""

CallReturned(v) == [status |-> "ok", value |-> v, exc |-> "", text |-> "", cause |-> "", returncode |-> 0]
CallRaised(e, t, c, rc) == [status |-> "raise", value |-> FALSE, exc |-> e, text |-> t, cause |-> c, returncode |-> rc]
CallNotMade == [status |-> "none", value |-> FALSE, exc |-> "", text |-> "", cause |-> "", returncode |-> 0]

\* the except clauses of check_nuclei_installed (lines 37-53), in order
InstalledClauses ==
    << [classes |-> {"FileNotFoundError"}, value |-> FALSE],
       [classes |-> {"CalledProcessError"}, value |-> TRUE],
       [classes |-> {"TimeoutExpired"}, value |-> FALSE],
       [classes |-> {"Exception"}, value |-> FALSE] >>

\* the non-zero exit of the version command taken as "not installed"
check_nuclei_installed_Strict(outcome) ==
    LET raised == subprocess_run(outcome, TRUE)
    IN  CallReturned(raised = "")

\* web_fuzzer.check_nuclei_installed (lines 24-53): `nuclei -version` is
\* run with check=True, and each exception is turned into a boolean
check_nuclei_installed(outcome) ==
    LET raised == subprocess_run(outcome, TRUE)
        matching == {i \in 1..Len(InstalledClauses) : IsInstance(raised, InstalledClauses[i].classes)}
    IN  IF raised = "" THEN CallReturned(TRUE)
        ELSE IF matching = {} THEN CallRaised(raised, "", "", 0)
        ELSE CallReturned(InstalledClauses[CHOOSE i \in matching : \A j \in matching : i <= j].value)

\* web_fuzzer.run_nuclei, lines 99-148, given what running the command
\* did.  The WebFuzzerError for a non-zero exit (line 124) is raised inside
\* the try block, so the handlers of lines 131-148 see it too: it is neither
\* a FileNotFoundError nor a TimeoutExpired, and `except Exception` wraps it.
run_nuclei(outcome) ==
    LET raised == subprocess_run(outcome, FALSE)
        in_try == IF raised # "" THEN [exc |-> raised, text |-> ""]
                  ELSE IF outcome.returncode # 0
                  THEN [exc |-> "WebFuzzerError", text |-> "Nuclei process failed with exit code "]
                  ELSE [exc |-> "", text |-> ""]
    IN  IF in_try.exc = "" THEN CallReturned(TRUE)
        ELSE IF IsInstance(in_try.exc, {"FileNotFoundError"})
        THEN CallRaised("EnvironmentError", "Nuclei executable not found during execution.", "", 0)
        ELSE IF IsInstance(in_try.exc, {"TimeoutExpired"})
        THEN CallRaised("WebFuzzerError", "Nuclei scan process timed out", "", 0)
        ELSE IF IsInstance(in_try.exc, {"Exception"})
        THEN CallRaised("WebFuzzerError", "Nuclei execution failed unexpectedly: ", in_try.text,
                        outcome.returncode)
        ELSE CallRaised(in_try.exc, in_try.text, "", outcome.returncode)

\* a str value known by its characters
PyChars(chars) == [ty |-> "chars", s |-> "", n |-> 0, items |-> chars]

\* the characters of the flag strings of the model
Chars(str) ==
    CASE str = "-silent" -> <<"-", "s", "i", "l", "e", "n", "t">>
      [] str = "-v" -> <<"-", "v">>
      [] str = "-v -o 'a b'" -> <<"-", "v", " ", "-", "o", " ", "'", "a", " ", "b", "'">>
      [] str = "-v 'x" -> <<"-", "v", " ", "'", "x">>
      [] str = " -v  " -> <<" ", "-", "v", " ", " ">>
      [] OTHER -> <<>>

ShlexOk(tokens) == [status |-> "ok", exc |-> "", tokens |-> tokens]
ShlexError(tokens) == [status |-> "raise", exc |-> "ValueError", tokens |-> tokens]

\* shlex's scanner over the characters left: blanks separate words, a
\* single quote opens a part that runs to the next single quote, and the
\* end of the input inside such a part is an error ("No closing quotation")
RECURSIVE ShlexScan(_, _, _, _, _)
ShlexScan(rest, tokens, word, in_word, in_quote) ==
    IF rest = <<>>
    THEN IF in_quote THEN ShlexError(tokens)
         ELSE IF in_word THEN ShlexOk(Append(tokens, PyChars(word)))
         ELSE ShlexOk(tokens)
    ELSE LET c == Head(rest)
         IN  IF in_quote
             THEN IF c = "'" THEN ShlexScan(Tail(rest), tokens, word, TRUE, FALSE)
                  ELSE ShlexScan(Tail(rest), tokens, Append(word, c), TRUE, TRUE)
             ELSE IF c = " "
             THEN IF in_word THEN ShlexScan(Tail(rest), Append(tokens, PyChars(word)), <<>>, FALSE, FALSE)
                  ELSE ShlexScan(Tail(rest), tokens, <<>>, FALSE, FALSE)
             ELSE IF c = "'" THEN ShlexScan(Tail(rest), tokens, word, TRUE, TRUE)
             ELSE ShlexScan(Tail(rest), tokens, Append(word, c), TRUE, FALSE)

\* the words read before the error handed back with it
shlex_split_Partial(chars) ==
    LET r == ShlexScan(chars, <<>>, <<>>, FALSE, FALSE)
    IN  ShlexOk(r.tokens)

\* shlex.split(s): the list of words, or a ValueError and no list
shlex_split(chars) ==
    LET r == ShlexScan(chars, <<>>, <<>>, FALSE, FALSE)
    IN  IF r.status = "ok" THEN r ELSE ShlexError(<<>>)

CommandBuilt(command) == [status |-> "ok", exc |-> "", command |-> command]
CommandRaised(e) == [status |-> "raise", exc |-> e, command |-> <<>>]

\* run_nuclei, lines 80-94: the argument vector.  extend is called with the
\* whole list shlex.split returned, so a ValueError appends nothing; a truthy
\* extra_flags_str that is no str has no read method, and the
\* AttributeError is not caught here
nuclei_command(target_url, templates_path, extra_flags_str) ==
    LET base == <<PyStr("nuclei"), PyStr("-u"), target_url>>
        templated == IF Truthy(templates_path)
                     THEN base \o <<PyStr("-t"), templates_path>>
                     ELSE base
    IN  IF ~Truthy(extra_flags_str) THEN CommandBuilt(templated)
        ELSE IF extra_flags_str.ty # "str" THEN CommandRaised("AttributeError")
        ELSE LET extra_args == shlex_split(Chars(extra_flags_str.s))
             IN  IF extra_args.status = "ok"
                 THEN CommandBuilt(templated \o extra_args.tokens)
                 ELSE CommandBuilt(templated)

NoArgs == [target_url |-> PyNull, templates_path |-> PyNull, extra_flags_str |-> PyNull,
           process_timeout |-> PyNull]

\* web_fuzzer.run, lines 186-191: the arguments of the run_nuclei call
NucleiArgs(cfg) ==
    [target_url |-> ConfigGet(cfg, "web_fuzzer.target_url"),
     templates_path |-> ConfigGet(cfg, "web_fuzzer.nuclei.templates_path"),
     extra_flags_str |-> ConfigGetOr(cfg, "web_fuzzer.nuclei.extra_flags", PyStr("")),
     process_timeout |-> ConfigGetOr(cfg, "web_fuzzer.nuclei.process_timeout", PyInt(600))]

\* nothing spawned yet
FuzzIdle == [spawned |-> <<>>, check |-> Exited(0), installed |-> CallNotMade,
             args |-> NoArgs, command |-> <<>>,
             scan |-> Exited(0), scanned |-> CallNotMade]

FuzzEnded(result, spawned, check, installed, scan, scanned) ==
    [result |-> result,
     fuzz |-> [spawned |-> spawned, check |-> check, installed |-> installed,
               args |-> NoArgs, command |-> <<>>,
               scan |-> scan, scanned |-> scanned]]

\* the run_nuclei call of web_fuzzer.run: the vector is built, and the
\* child process is spawned with it unless building it raised
FuzzScan(ended, args, scan_outcome) ==
    LET built == nuclei_command(args.target_url, args.templates_path, args.extra_flags_str)
        scanned == run_nuclei(scan_outcome)
    IN  IF built.status = "raise"
        THEN [result |-> ModRaised(built.exc, ""),
              fuzz |-> [ended.fuzz EXCEPT !.args = args,
                                          !.scanned = CallRaised(built.exc, "", "", 0)]]
        ELSE [result |-> IF scanned.status = "ok" THEN ModReturned
                         ELSE ModRaised(scanned.exc, scanned.text),
              fuzz |-> [ended.fuzz EXCEPT !.args = args, !.command = built.command,
                                          !.spawned = Append(@, "nuclei -u"),
                                          !.scan = scan_outcome, !.scanned = scanned]]

\* the availability check made before the target is looked at
fuzz_run_CheckFirst(cfg, check_outcome, scan_outcome) ==
    LET installed == check_nuclei_installed(check_outcome)
    IN  IF installed.status = "raise"
        THEN FuzzEnded(ModRaised(installed.exc, ""), <<"nuclei -version">>,
                       check_outcome, installed, Exited(0), CallNotMade)
        ELSE IF ~installed.value
        THEN FuzzEnded(ModRaised("EnvironmentError", "Nuclei dependency check failed."),
                       <<"nuclei -version">>, check_outcome, installed, Exited(0), CallNotMade)
        ELSE IF ~Truthy(ConfigGet(cfg, "web_fuzzer.target_url"))
        THEN FuzzEnded(ModRaised("ConfigError", "Required setting 'web_fuzzer.target_url' is missing in configuration."),
                       <<"nuclei -version">>, check_outcome, installed, Exited(0), CallNotMade)
        ELSE FuzzScan(FuzzEnded(ModNotRun, <<"nuclei -version">>, check_outcome, installed,
                                Exited(0), CallNotMade),
                      NucleiArgs(cfg), scan_outcome)

\* web_fuzzer.run (lines 158-200): how it ended, and what it did on the way:
\* the child processes spawned, in order, and what the two calls gave
fuzz_run(cfg, check_outcome, scan_outcome) ==
    LET installed == check_nuclei_installed(check_outcome)
    IN  IF ~Truthy(ConfigGet(cfg, "web_fuzzer.target_url"))
        THEN FuzzEnded(ModRaised("ConfigError", "Required setting 'web_fuzzer.target_url' is missing in configuration."),
                       <<>>, Exited(0), CallNotMade, Exited(0), CallNotMade)
        ELSE IF installed.status = "raise"
        THEN FuzzEnded(ModRaised(installed.exc, ""), <<"nuclei -version">>,
                       check_outcome, installed, Exited(0), CallNotMade)
        ELSE IF ~installed.value
        THEN FuzzEnded(ModRaised("EnvironmentError", "Nuclei dependency check failed."),
                       <<"nuclei -version">>, check_outcome, installed, Exited(0), CallNotMade)
        ELSE FuzzScan(FuzzEnded(ModNotRun, <<"nuclei -version">>, check_outcome, installed,
                                Exited(0), CallNotMade),
                      NucleiArgs(cfg), scan_outcome)

-----------------------------------------------------------------------------
(* lahma.py: the dispatcher *)

Modes == {"honeypot", "esxi", "fuzz"}

NoFailure == [at |-> "", exc |-> "", echo |-> ""]

\* lines 98-101: the effective log file and level, the command line first
final_log_file ==
    LET override == IF log_file = "NONE" \/ log_file = PyNone THEN PyNull ELSE PyStr(log_file)
        merged == IF Truthy(override) THEN override ELSE ConfigGet(loaded.config, "logging.file")
    IN  IF Truthy(merged) THEN merged ELSE PyNull

final_log_level ==
    IF StrTruthy(log_level) THEN PyStr(log_level)
    ELSE IF "logging.level" \in DOMAIN loaded.config THEN loaded.config["logging.level"]
    ELSE PyStr("INFO")

\* the except clauses of cli (lines 113-126)
CliFailure(at, exc) ==
    [at |-> at, exc |-> exc,
     echo |-> IF IsInstance(exc, {"ConfigError"}) THEN "Error: Configuration failed - "
              ELSE "Error: Critical initialization failed - "]

\* the except clauses of run_module (lines 155-169)
ModuleFailure(exc) ==
    [at |-> "module", exc |-> exc,
     echo |-> IF IsInstance(exc, {"ModuleError", "ApiError", "EnvironmentError", "ConfigError"})
              THEN "Error: "
              ELSE "Error: An unexpected critical error occurred: "]

\* unexpected exceptions logged but not turned into a failure exit
ModuleExitCode_KnownOnly(result) ==
    IF result.status = "raise"
       /\ IsInstance(result.exc, {"ModuleError", "ApiError", "EnvironmentError", "ConfigError"})
    THEN 1 ELSE 0

\* run_module's exit code: sys.exit(1) in both except clauses, else the
\* normal end of the process
ModuleExitCode(result) == IF result.status = "raise" THEN 1 ELSE 0

\* the failure of load_config logged without leaving the process
CliLoadConfig_Continue ==
    /\ stage = "uninitialized"
    /\ loaded' = load_config(config_path_arg, exists, content, environ)
    /\ stage' = "configured"
    /\ UNCHANGED <<exit_code, failure>>
    /\ UNCHANGED <<inputVars, found, reloaded, run_calls, module_result, logging, esxiVars, fuzz, honeypot>>

\* cli, step 1: load_config
CliLoadConfig ==
    /\ stage = "uninitialized"
    /\ loaded' = load_config(config_path_arg, exists, content, environ)
    /\ IF loaded'.status = "ok"
       THEN stage' = "configured" /\ UNCHANGED <<exit_code, failure>>
       ELSE /\ stage' = "failed"
            /\ exit_code' = 1
            /\ failure' = CliFailure("load_config", loaded'.exc)
    /\ UNCHANGED <<inputVars, found, reloaded, run_calls, module_result, logging, esxiVars, fuzz, honeypot>>

\* cli, steps 2 and 3: the effective settings, then setup_logging
CliSetupLogging ==
    /\ stage = "configured"
    /\ \E where \in FileSystemCases :
        LET r == setup_logging(logging, final_log_level, final_log_file, where)
        IN  /\ logging' = r.logging
            /\ IF r.status = "ok"
               THEN stage' = "logging-ready" /\ UNCHANGED <<exit_code, failure>>
               ELSE /\ stage' = "failed"
                    /\ exit_code' = 1
                    /\ failure' = CliFailure("setup_logging", r.exc)
    /\ UNCHANGED <<inputVars, loaderVars, run_calls, module_result, esxiVars, fuzz, honeypot>>

\* run_module: the module's run function is looked up and invoked
RunModule ==
    /\ stage = "logging-ready"
    /\ mode \in Modes
    /\ stage' = "dispatching"
    /\ run_calls' = Append(run_calls, mode)
    /\ UNCHANGED <<inputVars, loaderVars, exit_code, failure, module_result, logging, esxiVars, fuzz, honeypot>>

\* honeypot.run, with the generate_bait_rules call it makes
HoneypotRun ==
    /\ stage = "dispatching" /\ mode = "honeypot" /\ module_result.status = "none"
    /\ module_result' = honeypot_run(loaded.config, host.OPENAI_AVAILABLE)
    /\ IF "honeypot" \in DOMAIN loaded.config /\ loaded.config["honeypot"].ty # "map"
       THEN UNCHANGED honeypot
       ELSE LET args == HoneypotArgs(loaded.config)
                generated == generate_bait_rules(args.target_tech, args.api_key, args.model,
                                                 host.OPENAI_AVAILABLE)
            IN  honeypot' = [pc |-> "called", target_tech |-> args.target_tech,
                             api_key |-> args.api_key, model |-> args.model,
                             generated |-> generated,
                             deployed |-> Len(generated.rules)]
    /\ UNCHANGED <<inputVars, loaderVars, stage, exit_code, failure, run_calls, logging, esxiVars, fuzz>>

\* web_fuzzer.run, with the child processes it spawns
FuzzRun ==
    /\ stage = "dispatching" /\ mode = "fuzz" /\ module_result.status = "none"
    /\ \E check_outcome \in CheckOutcomes, scan_outcome \in CheckOutcomes :
        LET r == fuzz_run(loaded.config, check_outcome, scan_outcome)
        IN  /\ module_result' = r.result
            /\ fuzz' = r.fuzz
    /\ UNCHANGED <<inputVars, loaderVars, stage, exit_code, failure, run_calls, logging, esxiVars, honeypot>>

\* the SDK looked for before the target list
EsxiStart_SdkFirst ==
    /\ stage = "dispatching" /\ mode = "esxi" /\ module_result.status = "none"
    /\ esxi.pc = "idle"
    /\ LET targets == ConfigGet(loaded.config, "esxi_tester.targets")
           timeout == ConfigGet(loaded.config, "esxi_tester.check_timeout")
       IN  IF ~host.PYVMOMI_AVAILABLE
           THEN /\ module_result' = ModRaised("EnvironmentError", "pyVmomi library is required")
                /\ esxi' = [esxi EXCEPT !.pc = "done"]
           ELSE IF ~Truthy(targets)
           THEN /\ module_result' = ModRaised("ConfigError", "No ESXi targets specified")
                /\ esxi' = [esxi EXCEPT !.pc = "done"]
           ELSE IF targets.ty # "list"
           THEN \* a number is not iterable
                /\ module_result' = ModRaised("TypeError", "object is not iterable")
                /\ esxi' = [esxi EXCEPT !.pc = "done"]
           ELSE /\ esxi' = [esxi EXCEPT !.pc = "loop", !.targets = targets.items,
                                        !.timeout = timeout, !.i = 1]
                /\ UNCHANGED module_result
    /\ UNCHANGED <<inputVars, loaderVars, stage, exit_code, failure, run_calls, logging,
                   default_timeout, chk, fuzz, honeypot>>

\* esxi run, lines 141-156: the two preconditions
EsxiStart ==
    /\ stage = "dispatching" /\ mode = "esxi" /\ module_result.status = "none"
    /\ esxi.pc = "idle"
    /\ LET targets == ConfigGet(loaded.config, "esxi_tester.targets")
           timeout == ConfigGet(loaded.config, "esxi_tester.check_timeout")
       IN  IF ~Truthy(targets)
           THEN /\ module_result' = ModRaised("ConfigError", "No ESXi targets specified")
                /\ esxi' = [esxi EXCEPT !.pc = "done"]
           ELSE IF ~host.PYVMOMI_AVAILABLE
           THEN /\ module_result' = ModRaised("EnvironmentError", "pyVmomi library is required")
                /\ esxi' = [esxi EXCEPT !.pc = "done"]
           ELSE IF targets.ty # "list"
           THEN \* a number is not iterable
                /\ module_result' = ModRaised("TypeError", "object is not iterable")
                /\ esxi' = [esxi EXCEPT !.pc = "done"]
           ELSE /\ esxi' = [esxi EXCEPT !.pc = "loop", !.targets = targets.items,
                                        !.timeout = timeout, !.i = 1]
                /\ UNCHANGED module_result
    /\ UNCHANGED <<inputVars, loaderVars, stage, exit_code, failure, run_calls, logging,
                   default_timeout, chk, fuzz, honeypot>>

\* esxi run, lines 157-172: the next target is parsed; a malformed one is
\* recorded, a well-formed one starts its check
EsxiTarget ==
    /\ esxi.pc = "loop" /\ chk.pc = "idle" /\ esxi.i <= Len(esxi.targets)
    /\ LET target_entry == esxi.targets[esxi.i]
       IN  IF HasColon(target_entry) /\ ~IsIntLiteral(SplitPort(target_entry))
           THEN IF target_entry \in UnhashableEntries
                THEN \* line 168 raises inside the handler of the ValueError
                     /\ module_result' = ModRaised("TypeError", "unhashable type")
                     /\ esxi' = [esxi EXCEPT !.pc = "done"]
                     /\ UNCHANGED <<default_timeout, chk>>
                ELSE /\ esxi' = [esxi EXCEPT
                            !.results = DictSet(@, target_entry,
                                <<FALSE, Message("Invalid format (expected 'host' or 'host:port').", "")>>),
                            !.outcomes = Append(@,
                                <<FALSE, Message("Invalid format (expected 'host' or 'host:port').", "")>>),
                            !.i = @ + 1]
                     /\ UNCHANGED <<default_timeout, chk, module_result>>
           ELSE LET host_ == IF HasColon(target_entry) THEN SplitHost(target_entry) ELSE target_entry
                    port == IF HasColon(target_entry) THEN IntOf(SplitPort(target_entry)) ELSE 443
                    begun == CheckBegin(host_, port, esxi.timeout, host.PYVMOMI_AVAILABLE,
                                        default_timeout)
                IN  /\ chk' = begun[1]
                    /\ default_timeout' = begun[2]
                    /\ esxi' = [esxi EXCEPT !.checks = Append(@, [entry |-> esxi.i, host |-> host_, port |-> port])]
                    /\ UNCHANGED module_result
    /\ UNCHANGED <<inputVars, loaderVars, stage, exit_code, failure, run_calls, logging, fuzz, honeypot>>

\* check_esxi_target: the connection attempt and the handlers
EsxiConnect ==
    /\ chk.pc = "connect"
    /\ \E outcome \in ConnectOutcomes : chk' = CheckConnect(chk, outcome)
    /\ esxi' = [esxi EXCEPT !.connects = Append(@, esxi.checks[Len(esxi.checks)].entry)]
    /\ UNCHANGED <<inputVars, loaderVars, dispatchVars, logging, default_timeout, fuzz, honeypot>>

\* check_esxi_target: the finally block
EsxiCleanup ==
    /\ chk.pc = "cleanup"
    /\ \E disconnect_fails \in BOOLEAN :
        LET done == CheckCleanup(chk, disconnect_fails)
        IN  chk' = done[1] /\ default_timeout' = done[2]
    /\ UNCHANGED <<inputVars, loaderVars, dispatchVars, logging, esxi, fuzz, honeypot>>

\* esxi run, lines 172-177: the check's pair, or the exception it raised,
\* is recorded under the target string
EsxiRecord ==
    /\ esxi.pc = "loop" /\ chk.pc = "returned"
    /\ IF esxi.targets[esxi.i] \in UnhashableEntries
       THEN \* line 173 raises, line 174 catches, line 177 raises again
            /\ module_result' = ModRaised("TypeError", "unhashable type")
            /\ esxi' = [esxi EXCEPT !.pc = "done"]
       ELSE /\ LET pair == IF chk.status = "ok" THEN <<chk.success, chk.message>>
                           ELSE <<FALSE, Message("Critical unexpected error: ", chk.exc)>>
               IN  esxi' = [esxi EXCEPT
                        !.results = DictSet(@, esxi.targets[esxi.i], pair),
                        !.outcomes = Append(@, pair),
                        !.i = @ + 1]
            /\ UNCHANGED module_result
    /\ chk' = ChkIdle
    /\ UNCHANGED <<inputVars, loaderVars, stage, exit_code, failure, run_calls, logging,
                   default_timeout, fuzz, honeypot>>

\* esxi run, lines 180-193: the summary, then the normal return
EsxiFinish ==
    /\ esxi.pc = "loop" /\ chk.pc = "idle" /\ esxi.i > Len(esxi.targets)
    /\ esxi' = [esxi EXCEPT
            !.pc = "done",
            !.successful_checks = Cardinality({i \in 1..Len(esxi.results) : esxi.results[i].success}),
            !.failed_checks = Cardinality({i \in 1..Len(esxi.results) : ~esxi.results[i].success})]
    /\ module_result' = ModReturned
    /\ UNCHANGED <<inputVars, loaderVars, stage, exit_code, failure, run_calls, logging,
                   default_timeout, chk, fuzz, honeypot>>

\* run_module, lines 152-169: the module returned (exit code 0) or raised
RunModuleDone ==
    /\ stage = "dispatching" /\ module_result.status # "none"
    /\ exit_code' = ModuleExitCode(module_result)
    /\ stage' = IF exit_code' = 0 THEN "succeeded" ELSE "failed"
    /\ IF module_result.status = "ok"
       THEN UNCHANGED failure
       ELSE failure' = ModuleFailure(module_result.exc)
    /\ UNCHANGED <<inputVars, loaderVars, run_calls, module_result, logging, esxiVars, fuzz, honeypot>>

-----------------------------------------------------------------------------
(* the input documents of the loader's specification *)

MaxKeys == 2

AllPaths == {Defaults[i][2] : i \in 1..Len(Defaults)} \cup {API_KEY}

\* an ESXi target string is the sequence of its characters
TargetA == <<"h">>

\* the values a file may give a key: null, a falsy value, a value that is
\* not the default
FileVals(path) ==
    CASE path \in Sections -> {PyDict, PyNull, PyStr("x"), PyList(<<>>)}
      [] path = "logging.level" -> {PyNull, PyStr(""), PyStr("DEBUG")}
      [] path = "logging.file" -> {PyNull, PyStr(""), PyStr("test.log")}
      [] path = API_KEY -> {PyNull, PyStr(""), PyStr("file_key")}
      [] path = "openai.model" -> {PyNull, PyStr("gpt-test")}
      [] path = "openai.request_timeout" -> {PyInt(0), PyInt(30)}
      [] path = "esxi_tester.targets" -> {PyNull, PyList(<<>>), PyList(<<TargetA>>)}
      [] path = "esxi_tester.check_timeout" -> {PyInt(0), PyInt(5)}
      [] path = "web_fuzzer.target_url" -> {PyStr(""), PyStr("http://t")}
      [] path = "web_fuzzer.nuclei.templates_path" -> {PyStr(""), PyStr("tpl")}
      [] path = "web_fuzzer.nuclei.extra_flags" -> {PyNull, PyStr(""), PyStr("-v")}
      [] path = "web_fuzzer.nuclei.process_timeout" -> {PyNull, PyInt(0)}
      [] path = "tor.enabled" -> {PyInt(0), PyBool(TRUE)}
      [] path = "tor.control_port" -> {PyNull, PyInt(0)}
      [] OTHER -> {PyStr(""), PyStr("pw")}

\* the keys a document may still gain: top-level ones, and those of a
\* section it holds as a mapping
Addable(d) ==
    {p \in AllPaths \ DOMAIN d :
        ParentOf(p) = ROOT \/ (ParentOf(p) \in DOMAIN d /\ d[ParentOf(p)].ty = "map")}

RECURSIVE DocsUpTo(_)
DocsUpTo(k) ==
    IF k = 0 THEN {EmptyDict}
    ELSE LET prev == DocsUpTo(k - 1)
         IN  prev \cup UNION {UNION {{(p :> v) @@ d : v \in FileVals(p)} : p \in Addable(d)} : d \in prev}

Contents ==
    {[kind |-> k, doc |-> EmptyDict] : k \in {"empty", "scalar", "list", "yaml_error", "io_error", "other_error"}}
    \cup {[kind |-> "mapping", doc |-> d] : d \in DocsUpTo(MaxKeys)}

EnvNames == {"LAHMA_OPENAI_API_KEY", "OPENAI_API_KEY"}

\* each variable unset, set to the empty string, or set to a key of its own
EnvKey(name) == IF name = "LAHMA_OPENAI_API_KEY" THEN "lahma_env_key" ELSE "openai_env_key"

Environs ==
    UNION {{e \in [names -> {"", "lahma_env_key", "openai_env_key"}] :
                \A v \in names : e[v] \in {"", EnvKey(v)}}
           : names \in SUBSET EnvNames}

FileNames == {DEFAULT_CONFIG_PATH, example_path, "my.yaml"}

PathArgs == {PyNone, "", "my.yaml"}

-----------------------------------------------------------------------------
(* the inputs of the dispatcher's specification *)

MaxTargets == 2

BaseHost == [PYVMOMI_AVAILABLE |-> TRUE, OPENAI_AVAILABLE |-> TRUE, initial_timeout |-> PyNull]

\* nothing has run yet
Idle ==
    /\ found = NotCalled
    /\ loaded = LoadNotCalled
    /\ reloaded = LoadNotCalled
    /\ stage = "uninitialized"
    /\ exit_code = -1
    /\ failure = NoFailure
    /\ logging = NoLogging
    /\ run_calls = <<>>
    /\ module_result = ModNotRun
    /\ default_timeout = host.initial_timeout
    /\ chk = ChkIdle
    /\ esxi = EsxiIdle
    /\ fuzz = FuzzIdle
    /\ honeypot = HoneypotIdle

\* no logging option on the command line, the honeypot module, every
\* library installed
CliDefaults ==
    /\ log_level = PyNone
    /\ log_file = PyNone
    /\ mode = "honeypot"
    /\ host = BaseHost

MappingFile(d) == [kind |-> "mapping", doc |-> d]

OneKey(path, values) == {EmptyDict} \cup {(path :> v) : v \in values}

\* documents that set the logging section
LoggingDocs ==
    {("logging" :> PyDict) @@ l @@ f :
        l \in OneKey("logging.level", {PyStr("debug"), PyStr("verbose"), PyStr("basic_format"),
                                       PyInt(10), PyNull}),
        f \in OneKey("logging.file", {PyStr("test.log"), PyNull, PyInt(7)})}

TargetStrings == {<<"h">>, <<"h", ":", "8">>, <<"g", ":", "1", "2">>, <<"h", ":", "x">>}

RECURSIVE ListsUpTo(_, _)
ListsUpTo(S, k) ==
    IF k = 0 THEN {<<>>}
    ELSE LET shorter == ListsUpTo(S, k - 1)
         IN  shorter \cup {Append(l, x) : l \in shorter, x \in S}

\* the lists of target strings, and the lists that hold an entry that is
\* no string
TargetLists ==
    ListsUpTo(TargetStrings, MaxTargets)
    \cup ListsUpTo({<<"h">>} \cup UnhashableEntries, MaxTargets)

\* documents that set the esxi_tester section
EsxiDocs ==
    {("esxi_tester" :> PyDict) @@ t @@ c :
        t \in OneKey("esxi_tester.targets",
                     {PyList(l) : l \in TargetLists} \cup {PyNull, PyInt(5)}),
        c \in OneKey("esxi_tester.check_timeout", {PyNull, PyInt(0 - 1), PyStr("5")})}

\* documents that set the web fuzzer's target, or the API key
ModuleDocs ==
    {("web_fuzzer" :> PyDict) @@ u : u \in OneKey("web_fuzzer.target_url", {PyStr(""), PyStr("http://t")})}
    \cup {("openai" :> PyDict) @@ k : k \in OneKey(API_KEY, {PyStr("file_key")})}

\* documents with a section that is no mapping
BrokenDocs == {("logging" :> PyNull), ("openai" :> PyList(<<>>)), ("tor" :> PyStr("x"))}

\* the logging options and the logging section vary
InitLogging ==
    /\ exists = {DEFAULT_CONFIG_PATH}
    /\ config_path_arg = PyNone
    /\ content \in {MappingFile(d) : d \in LoggingDocs}
    /\ environ = EmptyDict
    /\ log_level \in {PyNone, "DEBUG"}
    /\ log_file \in {PyNone, "NONE", "none", "out.log"}
    /\ mode = "honeypot"
    /\ host = BaseHost

\* the file found, its content and the module vary
InitLoader ==
    /\ exists \in SUBSET {DEFAULT_CONFIG_PATH, "my.yaml"}
    /\ config_path_arg \in {PyNone, "my.yaml"}
    /\ content \in {[kind |-> k, doc |-> EmptyDict] : k \in {"empty", "yaml_error", "io_error"}}
                   \cup {MappingFile(d) : d \in BrokenDocs \cup ModuleDocs}
    /\ environ \in {EmptyDict, ("OPENAI_API_KEY" :> "openai_env_key")}
    /\ log_level = PyNone
    /\ log_file = PyNone
    /\ mode \in Modes
    /\ host \in {[BaseHost EXCEPT !.OPENAI_AVAILABLE = b] : b \in BOOLEAN}

\* the ESXi module's settings and the SDK vary
InitEsxi ==
    /\ exists = {DEFAULT_CONFIG_PATH}
    /\ config_path_arg = PyNone
    /\ content \in {MappingFile(d) : d \in EsxiDocs}
    /\ environ = EmptyDict
    /\ log_level = PyNone
    /\ log_file = "NONE"
    /\ mode = "esxi"
    /\ host \in {[BaseHost EXCEPT !.PYVMOMI_AVAILABLE = b, !.initial_timeout = t] :
                    b \in BOOLEAN, t \in {PyNull, PyInt(30)}}

Init == (InitLogging \/ InitLoader \/ InitEsxi) /\ Idle

Next ==
    \/ CliLoadConfig
    \/ CliSetupLogging
    \/ RunModule
    \/ HoneypotRun
    \/ FuzzRun
    \/ EsxiStart
    \/ EsxiTarget
    \/ EsxiConnect
    \/ EsxiCleanup
    \/ EsxiRecord
    \/ EsxiFinish
    \/ RunModuleDone

Spec == Init /\ [][Next]_vars

-----------------------------------------------------------------------------
(* the loader called on its own, as its tests call it *)

CallFindConfigFile ==
    /\ found.status = "none"
    /\ found' = find_config_file(config_path_arg, exists)
    /\ UNCHANGED <<inputVars, loaded, reloaded, dispatchVars, logging, esxiVars, fuzz, honeypot>>

\* the resolved key left in the environment by the first call
CallLoadConfig_ExportsKey ==
    /\ loaded.status = "none"
    /\ loaded' = load_config(config_path_arg, exists, content, environ)
    /\ environ' = IF loaded'.status = "ok" /\ Truthy(ConfigGet(loaded'.config, API_KEY))
                  THEN ("LAHMA_OPENAI_API_KEY" :> "exported") @@ environ
                  ELSE environ
    /\ UNCHANGED <<exists, content, config_path_arg, log_level, log_file, mode, host>>
    /\ UNCHANGED <<found, reloaded, dispatchVars, logging, esxiVars, fuzz, honeypot>>

CallLoadConfig ==
    /\ loaded.status = "none"
    /\ loaded' = load_config(config_path_arg, exists, content, environ)
    /\ UNCHANGED <<inputVars, found, reloaded, dispatchVars, logging, esxiVars, fuzz, honeypot>>

InitFind ==
    /\ exists \in SUBSET (FileNames \cup {"other.yaml"})
    /\ config_path_arg \in PathArgs \cup {DEFAULT_CONFIG_PATH, example_path}
    /\ content = [kind |-> "empty", doc |-> EmptyDict]
    /\ environ = EmptyDict
    /\ CliDefaults
    /\ Idle

NextFind == CallFindConfigFile

SpecFind == InitFind /\ [][NextFind]_vars

InitConfig ==
    /\ exists \in SUBSET FileNames
    /\ config_path_arg \in PathArgs
    /\ content \in Contents
    /\ environ \in Environs
    /\ CliDefaults
    /\ Idle

NextConfig == CallLoadConfig

SpecConfig == InitConfig /\ [][NextConfig]_vars

-----------------------------------------------------------------------------
(* check_esxi_target called on its own, several times in a row *)

MaxCalls == 2

CallCheckEsxiTarget ==
    /\ chk.pc \in {"idle", "returned"}
    /\ Len(esxi.checks) < MaxCalls
    /\ \E port \in {443, 8}, timeout \in {PyInt(10), PyInt(0), PyNull, PyInt(0 - 1), PyStr("5")} :
        LET begun == CheckBegin(<<"h">>, port, timeout, host.PYVMOMI_AVAILABLE, default_timeout)
        IN  /\ chk' = begun[1]
            /\ default_timeout' = begun[2]
            /\ esxi' = [esxi EXCEPT !.checks = Append(@, [entry |-> 0, host |-> <<"h">>, port |-> port])]
    /\ UNCHANGED <<inputVars, loaderVars, dispatchVars, logging, fuzz, honeypot>>

InitCheck ==
    /\ exists = {}
    /\ config_path_arg = PyNone
    /\ content = [kind |-> "empty", doc |-> EmptyDict]
    /\ environ = EmptyDict
    /\ log_level = PyNone
    /\ log_file = PyNone
    /\ mode = "esxi"
    /\ host \in {[BaseHost EXCEPT !.PYVMOMI_AVAILABLE = b, !.initial_timeout = t] :
                    b \in BOOLEAN, t \in {PyNull, PyInt(30)}}
    /\ Idle

NextCheck == CallCheckEsxiTarget \/ EsxiConnect \/ EsxiCleanup

SpecCheck == InitCheck /\ [][NextCheck]_vars

-----------------------------------------------------------------------------
(* generate_bait_rules called on its own *)

TechValues == {PyStr("Generic Service"), PyStr("VMware ESXi"), PyStr(""), PyNull}

ApiKeyValues == {PyNull, PyStr(""), PyStr("sk-test"), PyInt(0), PyInt(7)}

ModelValues == {PyStr("gpt-3.5-turbo"), PyStr("gpt-test"), PyNull}

CallGenerateBaitRules ==
    /\ honeypot.pc = "idle"
    /\ \E target_tech \in TechValues, api_key \in ApiKeyValues, model \in ModelValues :
        LET generated == generate_bait_rules(target_tech, api_key, model, host.OPENAI_AVAILABLE)
        IN  honeypot' = [pc |-> "called", target_tech |-> target_tech, api_key |-> api_key,
                         model |-> model, generated |-> generated, deployed |-> 0]
    /\ UNCHANGED <<inputVars, loaderVars, dispatchVars, logging, esxiVars, fuzz>>

InitBait ==
    /\ exists = {}
    /\ config_path_arg = PyNone
    /\ content = [kind |-> "empty", doc |-> EmptyDict]
    /\ environ = EmptyDict
    /\ log_level = PyNone
    /\ log_file = PyNone
    /\ mode = "honeypot"
    /\ host \in {[BaseHost EXCEPT !.OPENAI_AVAILABLE = b] : b \in BOOLEAN}
    /\ Idle

NextBait == CallGenerateBaitRules

SpecBait == InitBait /\ [][NextBait]_vars

-----------------------------------------------------------------------------
(* load_config called twice with the same explicit file *)

\* the second call: it reads the file and the environment as the first call
\* left them
CallLoadConfigAgain ==
    /\ loaded.status # "none"
    /\ reloaded.status = "none"
    /\ reloaded' = load_config(config_path_arg, exists, content, environ)
    /\ UNCHANGED <<inputVars, found, loaded, dispatchVars, logging, esxiVars, fuzz, honeypot>>

InitReload ==
    /\ exists \in SUBSET {DEFAULT_CONFIG_PATH, "my.yaml"}
    /\ config_path_arg = "my.yaml"
    /\ content \in Contents
    /\ environ \in Environs
    /\ CliDefaults
    /\ Idle

NextReload == CallLoadConfig \/ CallLoadConfigAgain

SpecReload == InitReload /\ [][NextReload]_vars

-----------------------------------------------------------------------------
(* run_nuclei called on its own *)

TemplateValues == {PyNull, PyStr(""), PyStr("tpl")}

FlagValues ==
    {PyNull, PyStr(""), PyStr("-silent"), PyStr("-v"), PyStr(" -v  "), PyStr("-v -o 'a b'"),
     PyStr("-v 'x"), PyInt(7)}

CallRunNuclei ==
    /\ fuzz.scanned.status = "none"
    /\ \E templates_path \in TemplateValues, extra_flags_str \in FlagValues,
          process_timeout \in {PyInt(600), PyNull}, scan_outcome \in CheckOutcomes :
        LET args == [target_url |-> PyStr("http://t"), templates_path |-> templates_path,
                     extra_flags_str |-> extra_flags_str, process_timeout |-> process_timeout]
        IN  fuzz' = FuzzScan([result |-> ModNotRun, fuzz |-> fuzz], args, scan_outcome).fuzz
    /\ UNCHANGED <<inputVars, loaderVars, dispatchVars, logging, esxiVars, honeypot>>

InitNuclei ==
    /\ exists = {}
    /\ config_path_arg = PyNone
    /\ content = [kind |-> "empty", doc |-> EmptyDict]
    /\ environ = EmptyDict
    /\ log_level = PyNone
    /\ log_file = PyNone
    /\ mode = "fuzz"
    /\ host = BaseHost
    /\ Idle

NextNuclei == CallRunNuclei

SpecNuclei == InitNuclei /\ [][NextNuclei]_vars

-----------------------------------------------------------------------------
(* setup_logging called on its own, several times in a row *)

MaxSetups == 2

CallSetupLogging ==
    /\ Len(logging.calls) < MaxSetups
    /\ \E log_level_str \in {PyStr("INFO"), PyStr("debug"), PyStr("verbose")},
          log_file_name \in {PyNull, PyStr("lahma.log"), PyStr("other.log")},
          where \in FileSystemCases :
        logging' = setup_logging(logging, log_level_str, log_file_name, where).logging
    /\ UNCHANGED <<inputVars, loaderVars, dispatchVars, esxiVars, fuzz, honeypot>>

InitSetup ==
    /\ exists = {}
    /\ config_path_arg = PyNone
    /\ content = [kind |-> "empty", doc |-> EmptyDict]
    /\ environ = EmptyDict
    /\ CliDefaults
    /\ Idle

NextSetup == CallSetupLogging

SpecSetup == InitSetup /\ [][NextSetup]_vars

-----------------------------------------------------------------------------
(* Properties of the configuration loader *)

\* the file load_config read, PyNone when it read none
FileRead ==
    LET f == find_config_file(config_path_arg, exists)
    IN  IF f.status = "ok" /\ StrTruthy(f.value) THEN f.value ELSE PyNone

\* the mapping the file parsed to, the empty one when no mapping was read
ParsedDoc == IF FileRead # PyNone /\ content.kind = "mapping" THEN content.doc ELSE EmptyDict

ParsedMapping == FileRead # PyNone /\ content.kind = "mapping"

\* the first non-empty of the two variables, PyNone when neither is
EnvApiKey ==
    IF StrTruthy(EnvGet(environ, "LAHMA_OPENAI_API_KEY")) THEN environ["LAHMA_OPENAI_API_KEY"]
    ELSE IF StrTruthy(EnvGet(environ, "OPENAI_API_KEY")) THEN environ["OPENAI_API_KEY"]
    ELSE PyNone

\* the configuration of section 4.1's defaults alone
AllDefaultConfig == [p \in AllPaths \ {API_KEY} |-> DefaultOf(p)]

\* C1: whenever the file parses to a top-level mapping, load_config returns
\* a configuration in which every recognized key the file does not give
\* holds its default.  (Stated as claimed; the code violates it.)
C1_AbsentKeysGetDefaults ==
    (loaded.status # "none" /\ ParsedMapping) =>
        /\ loaded.status = "ok"
        /\ \A k \in RecognizedKeys \ DOMAIN ParsedDoc :
              k \in DOMAIN loaded.config /\ loaded.config[k] = DefaultOf(k)

\* C2: in the returned configuration every recognized key the file gives,
\* falsy or not, holds the file's value; only openai.api_key may differ, and
\* then it holds the environment's key.
C2_PresentKeysKept ==
    (loaded.status = "ok" /\ ParsedMapping) =>
        \A k \in (RecognizedKeys \cup {API_KEY}) \cap DOMAIN ParsedDoc :
            /\ k \in DOMAIN loaded.config
            /\ \/ loaded.config[k] = ParsedDoc[k]
               \/ k = API_KEY /\ EnvApiKey # PyNone /\ loaded.config[k] = PyStr(EnvApiKey)

C2_Witness ==
    /\ loaded.status = "ok"
    /\ ParsedMapping
    /\ "tor.enabled" \in DOMAIN ParsedDoc
    /\ ParsedDoc["tor.enabled"] = PyInt(0)
    /\ "tor" \in DOMAIN ParsedDoc

\* C3: in the returned configuration openai.api_key is LAHMA_OPENAI_API_KEY
\* when that is non-empty, else OPENAI_API_KEY when that is non-empty, else
\* the file's value, and the key is absent when the file gives none.
C3_ApiKeyResolution ==
    loaded.status = "ok" =>
        LET lahma == EnvGet(environ, "LAHMA_OPENAI_API_KEY")
            common == EnvGet(environ, "OPENAI_API_KEY")
        IN  IF StrTruthy(lahma)
            THEN API_KEY \in DOMAIN loaded.config /\ loaded.config[API_KEY] = PyStr(lahma)
            ELSE IF StrTruthy(common)
            THEN API_KEY \in DOMAIN loaded.config /\ loaded.config[API_KEY] = PyStr(common)
            ELSE IF API_KEY \in DOMAIN ParsedDoc
            THEN API_KEY \in DOMAIN loaded.config /\ loaded.config[API_KEY] = ParsedDoc[API_KEY]
            ELSE API_KEY \notin DOMAIN loaded.config

C3_Witness ==
    /\ loaded.status = "ok"
    /\ API_KEY \in DOMAIN ParsedDoc
    /\ ParsedDoc[API_KEY] = PyStr("file_key")
    /\ EnvGet(environ, "LAHMA_OPENAI_API_KEY") = "lahma_env_key"
    /\ EnvGet(environ, "OPENAI_API_KEY") = "openai_env_key"
    /\ loaded.config[API_KEY] = PyStr("lahma_env_key")

\* C4: find_config_file raises a ConfigError naming the path for an explicit
\* path that does not exist and returns an existing explicit path verbatim;
\* with no path given (None, or the empty string, which the code treats
\* alike) it returns the default path if it exists, else the example path
\* if it exists, else None.
C4_PathPriority ==
    found.status # "none" =>
        IF config_path_arg \notin {PyNone, ""}
        THEN IF config_path_arg \in exists
             THEN found.status = "ok" /\ found.value = config_path_arg
             ELSE found.status = "raise" /\ found.exc = "ConfigError"
                  /\ found.about = config_path_arg
        ELSE /\ found.status = "ok"
             /\ found.value = IF DEFAULT_CONFIG_PATH \in exists THEN DEFAULT_CONFIG_PATH
                              ELSE IF example_path \in exists THEN example_path
                              ELSE PyNone

C4_Witness ==
    /\ found.status = "ok"
    /\ config_path_arg = PyNone
    /\ exists = {example_path, "my.yaml"}
    /\ found.value = example_path

\* C5: a resolved file that is not valid YAML makes load_config raise a
\* ConfigError; one that parses to no mapping makes it return what it
\* returns when no file is found: the defaults, with the environment's key.
C5_InvalidAndNonMapping ==
    (loaded.status # "none" /\ FileRead # PyNone) =>
        /\ content.kind = "yaml_error" =>
              loaded.status = "raise" /\ loaded.exc = "ConfigError"
        /\ content.kind \in {"empty", "scalar", "list"} =>
              /\ loaded.status = "ok"
              /\ loaded = load_config(PyNone, {}, content, environ)
              /\ loaded.config = IF EnvApiKey = PyNone THEN AllDefaultConfig
                                 ELSE (API_KEY :> PyStr(EnvApiKey)) @@ AllDefaultConfig

C5_Witness ==
    /\ loaded.status = "ok"
    /\ FileRead = DEFAULT_CONFIG_PATH
    /\ content.kind = "list"
    /\ loaded.config["logging.level"] = PyStr("INFO")

-----------------------------------------------------------------------------
(* Properties of the dispatcher and of logging setup *)

Finished == stage \in {"succeeded", "failed"}

\* setup_logging raises for the effective settings of this run
LoggingRaises ==
    /\ loaded.status = "ok"
    /\ setup_logging(NoLogging, final_log_level, final_log_file, "log_dir").status = "raise"

\* C6: the exit code is set exactly when the run has ended; it is 0
\* exactly when load_config, setup_logging and the module's run all ended
\* without raising, and 1 otherwise.
C6_ExitCode ==
    /\ exit_code \in {0 - 1, 0, 1}
    /\ Finished <=> exit_code # 0 - 1
    /\ Finished =>
          /\ exit_code = 0 <=>
                (loaded.status = "ok" /\ ~LoggingRaises /\ module_result.status = "ok")
          /\ exit_code = 1 <=>
                (loaded.status = "raise" \/ LoggingRaises \/ module_result.status = "raise")

C6_Witness ==
    /\ exit_code = 1
    /\ failure.at = "module"
    /\ module_result.exc = "TypeError"

StageRank(st) ==
    CASE st = "uninitialized" -> 0
      [] st = "configured" -> 1
      [] st = "logging-ready" -> 2
      [] st = "dispatching" -> 3
      [] OTHER -> 4

\* a stage is left only for the next one, or for "failed"
StageStep ==
    stage' # stage =>
        /\ ~Finished
        /\ stage' = "failed" \/ StageRank(stage') = StageRank(stage) + 1
        /\ stage' = "succeeded" => stage = "dispatching"

RunOnlyWhenReady ==
    /\ Len(run_calls) <= 1
    /\ run_calls # <<>> => (loaded.status = "ok" /\ Len(logging.calls) = 1)
    /\ module_result.status # "none" => run_calls # <<>>
    /\ esxi.pc # "idle" \/ fuzz.spawned # <<>> => run_calls # <<>>
    /\ loaded.status = "raise" =>
          stage = "failed" /\ exit_code = 1 /\ run_calls = <<>> /\ logging.calls = <<>>

\* C7: the stages are passed in order; a module's run function is invoked
\* at most once, and only after load_config returned and setup_logging
\* was called; when load_config raises, the run is failed with exit code 1
\* and neither setup_logging nor a module runs.
C7_StagesInOrder == [][StageStep]_vars /\ []RunOnlyWhenReady

C7_Witness ==
    /\ stage = "failed"
    /\ loaded.status = "raise"
    /\ loaded.exc = "ConfigError"
    /\ mode = "esxi"

\* C8: when --log-file is NONE in any letter case, setup_logging is called
\* with no file name and creates no file sink, and the configuration's
\* logging.file is left as loaded.  (Stated as claimed; the code violates
\* it.)
C8_NoneDisablesFileLogging ==
    (logging.calls # <<>> /\ log_file \in {"NONE", "none"}) =>
        /\ logging.calls[1].file = PyNull
        /\ \A i \in 1..Len(logging.handlers) : logging.handlers[i].kind # "file"
        /\ loaded.config["logging.file"] =
              load_config(config_path_arg, exists, content, environ).config["logging.file"]

\* C9: setup_logging never raises: once the configuration is loaded, the
\* run does not fail in logging setup.  (Stated as claimed; the code
\* violates it.)
C9_LoggingSetupNeverFails ==
    /\ failure.at # "setup_logging"
    /\ (loaded.status = "ok" /\ logging.calls # <<>>) => stage # "configured"
    /\ (logging.calls # <<>> /\ run_calls = <<>>) => stage = "logging-ready"

-----------------------------------------------------------------------------
(* Properties of the ESXi module *)

\* C10: outside a call of check_esxi_target the process-wide default
\* socket timeout is the one it was before the first call, whichever way
\* each call ended.
C10_TimeoutRestored ==
    chk.pc \in {"idle", "returned"} => default_timeout = host.initial_timeout

C10_Witness ==
    /\ chk.pc = "returned"
    /\ Len(esxi.checks) = 2
    /\ host.initial_timeout = PyInt(30)
    /\ chk.timeout = PyInt(10)
    /\ chk.status = "ok"
    /\ ~chk.success
    /\ chk.disconnect_warned
    /\ default_timeout = PyInt(30)

\* the message prefixes of the failure handlers of check_esxi_target
FailurePrefixes == {ExceptClauses[i].prefix : i \in 1..Len(ExceptClauses)}

\* the connect call gave a session whose "about" descriptor is absent
ConnectedNoMetadata ==
    /\ chk.pc \in {"cleanup", "returned"}
    /\ chk.status = "ok"
    /\ chk.outcome = [session |-> TRUE, about |-> FALSE, exc |-> ""]

\* C11: when the connect call returns a session but the "about" descriptor
\* is absent, the check returns failure with a message of its own, which is
\* neither the message of a connection-failure handler nor the catch-all
\* unexpected-error message.
C11_NoMetadataMessage ==
    ConnectedNoMetadata =>
        /\ ~chk.success
        /\ chk.message.prefix \notin FailurePrefixes

-----------------------------------------------------------------------------
(* Properties of the ESXi module's run *)

EsxiTargetsSetting == ConfigGet(loaded.config, "esxi_tester.targets")

\* no target parsed, no connection attempted, no result recorded, the
\* default socket timeout as the process found it
EsxiUntouched ==
    /\ esxi.targets = <<>>
    /\ esxi.i = 0
    /\ esxi.checks = <<>>
    /\ esxi.results = <<>>
    /\ chk = ChkIdle
    /\ default_timeout = host.initial_timeout

\* C12: once the ESXi module's run has started, an empty or missing target
\* list has made it raise a ConfigError (also when the SDK is missing too),
\* and a non-empty one with the SDK missing has made it raise an
\* EnvironmentError; in both cases no target was parsed, no connection was
\* attempted, no result was recorded and the socket timeout was not touched.
C12_PreconditionsFirst ==
    (mode = "esxi" /\ esxi.pc # "idle") =>
        /\ ~Truthy(EsxiTargetsSetting) =>
                /\ esxi.pc = "done"
                /\ module_result.status = "raise" /\ module_result.exc = "ConfigError"
                /\ EsxiUntouched
        /\ (Truthy(EsxiTargetsSetting) /\ ~host.PYVMOMI_AVAILABLE) =>
                /\ esxi.pc = "done"
                /\ module_result.status = "raise" /\ module_result.exc = "EnvironmentError"
                /\ EsxiUntouched

C12_Witness ==
    /\ mode = "esxi"
    /\ stage = "failed"
    /\ esxi.pc = "done"
    /\ EsxiTargetsSetting = PyList(<<>>)
    /\ ~host.PYVMOMI_AVAILABLE
    /\ module_result.exc = "ConfigError"
    /\ host.initial_timeout = PyInt(30)
    /\ default_timeout = PyInt(30)

\* the host and port each well-formed target string names
ExpectedCheck(str) ==
    CASE str = <<"h">> -> [host |-> <<"h">>, port |-> 443]
      [] str = <<"h", ":", "8">> -> [host |-> <<"h">>, port |-> 8]
      [] str = <<"g", ":", "1", "2">> -> [host |-> <<"g">>, port |-> 12]

\* the target strings whose port segment is no integer
MalformedTargets == {<<"h", ":", "x">>}

\* the calls of check_esxi_target made for the j-th entry of the list
ChecksFor(j) == {k \in 1..Len(esxi.checks) : esxi.checks[k].entry = j}

ResultsFor(str) == {k \in 1..Len(esxi.results) : esxi.results[k].target = str}

\* every entry of the target list is a string
TargetsAreStrings == \A j \in 1..Len(esxi.targets) : esxi.targets[j] \in TargetStrings

\* C13: for a list of target strings, in the ESXi module's run every
\* target string already processed that is well-formed was checked once, with the host and the port it
\* names (443 without ':'); a target with a non-integer port was never
\* checked and is recorded as failed with the 'Invalid format' message;
\* targets not yet reached were not checked; and a run that entered the
\* loop ends by returning, after the last target, whatever the list held.
C13_TargetParsing ==
    TargetsAreStrings =>
    /\ \A j \in 1..Len(esxi.targets) :
        LET str == esxi.targets[j]
        IN  IF str \in MalformedTargets
            THEN /\ ChecksFor(j) = {}
                 /\ j < esxi.i =>
                        /\ ResultsFor(str) # {}
                        /\ \A k \in ResultsFor(str) :
                            /\ ~esxi.results[k].success
                            /\ esxi.results[k].message.prefix
                                    = "Invalid format (expected 'host' or 'host:port')."
            ELSE /\ \A k \in ChecksFor(j) :
                        /\ esxi.checks[k].host = ExpectedCheck(str).host
                        /\ esxi.checks[k].port = ExpectedCheck(str).port
                 /\ j < esxi.i => Cardinality(ChecksFor(j)) = 1
                 /\ j = esxi.i => Cardinality(ChecksFor(j)) <= 1
                 /\ j > esxi.i => ChecksFor(j) = {}
    /\ esxi.pc = "loop" => module_result.status = "none"
    /\ (esxi.pc = "done" /\ esxi.targets # <<>>) =>
            /\ module_result = ModReturned
            /\ esxi.i = Len(esxi.targets) + 1

C13_Witness ==
    /\ esxi.pc = "done"
    /\ esxi.targets = << <<"h", ":", "x">>, <<"g", ":", "1", "2">> >>
    /\ esxi.checks = << [entry |-> 2, host |-> <<"g">>, port |-> 12] >>
    /\ Len(esxi.results) = 2
    /\ esxi.results[1].message.prefix = "Invalid format (expected 'host' or 'host:port')."
    /\ esxi.results[2].success
    /\ module_result = ModReturned

-----------------------------------------------------------------------------
(* Properties of the web fuzzer *)

FuzzTargetSetting == ConfigGet(loaded.config, "web_fuzzer.target_url")

\* the positions in the list of spawned child processes that are scans
ScansSpawned == {k \in 1..Len(fuzz.spawned) : fuzz.spawned[k] = "nuclei -u"}

\* C14: the web fuzzer's run stops at its first failing step: without a
\* target URL (absent, null or empty) it raises a ConfigError and no child
\* process at all was spawned; with one, an availability check that gives
\* false makes it raise an EnvironmentError with only the version command
\* spawned; the scan is spawned at most once, and only after the target was
\* found and the availability check, spawned before it, gave true.
C14_FuzzStepsInOrder ==
    /\ Cardinality(ScansSpawned) <= 1
    /\ \A k \in ScansSpawned :
        /\ k = 2 /\ fuzz.spawned[1] = "nuclei -version"
        /\ Truthy(FuzzTargetSetting)
        /\ fuzz.installed = CallReturned(TRUE)
    /\ (mode = "fuzz" /\ module_result.status # "none") =>
        /\ ~Truthy(FuzzTargetSetting) =>
                /\ module_result.status = "raise" /\ module_result.exc = "ConfigError"
                /\ fuzz.spawned = <<>>
        /\ (Truthy(FuzzTargetSetting) /\ fuzz.installed = CallReturned(FALSE)) =>
                /\ module_result.status = "raise" /\ module_result.exc = "EnvironmentError"
                /\ fuzz.spawned = <<"nuclei -version">>

C14_Witness ==
    /\ mode = "fuzz"
    /\ stage = "failed"
    /\ FuzzTargetSetting = PyStr("http://t")
    /\ fuzz.check = Failed("TimeoutExpired")
    /\ fuzz.installed = CallReturned(FALSE)
    /\ module_result.exc = "EnvironmentError"
    /\ fuzz.spawned = <<"nuclei -version">>

\* C15: check_nuclei_installed never raises and gives a boolean for every
\* outcome of the version command: false when the binary is not found, true
\* when it exits with 0, true when it exits with another code, false when
\* the check times out, false on any other error.
C15_InstalledMapping ==
    fuzz.installed.status # "none" =>
        /\ fuzz.installed.status = "ok"
        /\ fuzz.check = Failed("FileNotFoundError") => ~fuzz.installed.value
        /\ fuzz.check = Exited(0) => fuzz.installed.value
        /\ (fuzz.check.exc = "" /\ fuzz.check.returncode # 0) => fuzz.installed.value
        /\ fuzz.check = Failed("TimeoutExpired") => ~fuzz.installed.value
        /\ fuzz.check.exc \notin {"", "FileNotFoundError", "TimeoutExpired"} => ~fuzz.installed.value

C15_Witness ==
    /\ fuzz.check = Exited(2)
    /\ fuzz.installed = CallReturned(TRUE)
    /\ fuzz.spawned = <<"nuclei -version", "nuclei -u">>
    /\ fuzz.scanned = CallReturned(TRUE)
    /\ stage = "succeeded"

\* C16: run_nuclei gives one of four results that can be told apart: true
\* for exit code 0; for another exit code a WebFuzzerError that carries the
\* code and says the process failed, not that the execution failed
\* unexpectedly; for a timeout a WebFuzzerError that names the timeout; for
\* a missing executable an EnvironmentError.  It never returns false.
C16_ScanClassification ==
    fuzz.scanned.status # "none" =>
        /\ fuzz.scanned # CallReturned(FALSE)
        /\ fuzz.scan = Exited(0) => fuzz.scanned = CallReturned(TRUE)
        /\ (fuzz.scan.exc = "" /\ fuzz.scan.returncode # 0) =>
                /\ fuzz.scanned.status = "raise"
                /\ fuzz.scanned.exc = "WebFuzzerError"
                /\ fuzz.scanned.returncode = fuzz.scan.returncode
                /\ fuzz.scanned.text = "Nuclei process failed with exit code "
        /\ fuzz.scan = Failed("TimeoutExpired") =>
                /\ fuzz.scanned.status = "raise"
                /\ fuzz.scanned.exc = "WebFuzzerError"
                /\ fuzz.scanned.text = "Nuclei scan process timed out"
        /\ fuzz.scan = Failed("FileNotFoundError") =>
                /\ fuzz.scanned.status = "raise"
                /\ fuzz.scanned.exc = "EnvironmentError"

-----------------------------------------------------------------------------
(* Properties of the honeypot module *)

\* the one rule generate_bait_rules builds for a technology
PlaceholderRule(target_tech) ==
    [rule_id |-> "placeholder_001", target_tech |-> target_tech, type |-> "banner_grab",
     decoy_content |-> <<"Placeholder ", target_tech, " Banner - Welcome!">>,
     action |-> "log_connection"]

\* C17: generate_bait_rules raises exactly when a non-empty api_key is given
\* and the client library is unavailable, and then it raises an
\* EnvironmentError and returns no rule; for every other target_tech, model
\* and api_key it returns exactly one rule, the placeholder for target_tech.
C17_StaticBaitRules ==
    honeypot.pc = "called" =>
        /\ honeypot.generated.status \in {"ok", "raise"}
        /\ honeypot.generated.status = "raise"
                <=> (Truthy(honeypot.api_key) /\ ~host.OPENAI_AVAILABLE)
        /\ honeypot.generated.status = "raise" =>
                /\ honeypot.generated.exc = "EnvironmentError"
                /\ honeypot.generated.rules = <<>>
        /\ honeypot.generated.status = "ok" =>
                honeypot.generated.rules = <<PlaceholderRule(honeypot.target_tech)>>

C17_Witness ==
    /\ honeypot.pc = "called"
    /\ honeypot.api_key = PyStr("sk-test")
    /\ honeypot.target_tech = PyStr("VMware ESXi")
    /\ honeypot.model = PyStr("gpt-test")
    /\ host.OPENAI_AVAILABLE
    /\ honeypot.generated.status = "ok"
    /\ Len(honeypot.generated.rules) = 1
    /\ honeypot.generated.rules[1].decoy_content
            = <<"Placeholder ", PyStr("VMware ESXi"), " Banner - Welcome!">>

-----------------------------------------------------------------------------
(* Properties of repeated calls *)

-----------------------------------------------------------------------------
(* Properties of check_esxi_target *)

\* each kind of failure of the connection attempt has its own prefix
ClassifiedByKind ==
    (chk.pc \in {"cleanup", "returned"} /\ chk.status = "ok" /\ TryRaises(chk.outcome) # "") =>
        LET raised == TryRaises(chk.outcome)
        IN  /\ ~chk.success
            /\ raised = "MethodFault" => chk.message.prefix = "VMware API error: "
            /\ raised = "socket.timeout" => chk.message.prefix = "Connection timed out after "
            /\ raised = "socket.gaierror" => chk.message.prefix = "DNS resolution error: "
            /\ raised \in {"ConnectionRefusedError", "OSError"}
                    => chk.message.prefix = "Connection error: "
            /\ raised \in {"ValueError", "AttributeError"}
                    => chk.message.prefix = "An unexpected error occurred during connection: "

\* C19: with the SDK available a call of check_esxi_target never ends by
\* raising, and every failure of the connection attempt is returned as
\* (false, message) with the prefix of its kind: 'VMware API error' for an
\* API fault, 'Connection timed out' for a timeout, 'DNS resolution error'
\* for a name-resolution failure, 'Connection error' for a refused or
\* unreachable connection, the unexpected-error message for anything else.
C19_NeverRaisesAndClassifies ==
    /\ (host.PYVMOMI_AVAILABLE /\ chk.pc = "returned") => chk.status = "ok"
    /\ ClassifiedByKind

\* C20: check_esxi_target attempts no disconnect before the pair it returns
\* is fixed; when it returns, it has attempted exactly one disconnect if
\* the connect call gave a session and none otherwise; and a failing
\* disconnect neither makes it raise nor changes the pair fixed before it.
C20_DisconnectOnce ==
    /\ chk.pc \in {"idle", "connect", "cleanup"} => chk.disconnects = 0
    /\ (chk.pc = "returned" /\ chk.status = "raise") => chk.disconnects = 0
    /\ chk.pc = "returned" => chk.status \in {"ok", "raise"}
    /\ (chk.pc = "returned" /\ chk.outcome # NoOutcome) =>
        LET decided == CheckConnect(chk, chk.outcome)
        IN  /\ chk.status = "ok"
            /\ chk.disconnects = (IF chk.outcome.session THEN 1 ELSE 0)
            /\ chk.success = decided.success
            /\ chk.message = decided.message
    /\ chk.disconnect_warned => (chk.outcome.session /\ chk.disconnects = 1)

C20_Witness ==
    /\ chk.pc = "returned"
    /\ chk.outcome = [session |-> TRUE, about |-> TRUE, exc |-> ""]
    /\ chk.disconnects = 1
    /\ chk.disconnect_warned
    /\ chk.status = "ok"
    /\ chk.success
    /\ chk.message.prefix = "Successfully connected. "

-----------------------------------------------------------------------------
(* Properties of run_nuclei's argument vector *)

\* the words of each flag string of the model, as a shell would split it;
\* none for the string with the unbalanced quote
ExpectedFlagWords(flags) ==
    CASE flags = PyStr("-silent") -> << PyChars(<<"-", "s", "i", "l", "e", "n", "t">>) >>
      [] flags = PyStr("-v") -> << PyChars(<<"-", "v">>) >>
      [] flags = PyStr(" -v  ") -> << PyChars(<<"-", "v">>) >>
      [] flags = PyStr("-v -o 'a b'") ->
            << PyChars(<<"-", "v">>), PyChars(<<"-", "o">>), PyChars(<<"a", " ", "b">>) >>
      [] OTHER -> <<>>

\* C21: for an extra-flags string (or null) run_nuclei executes the scan
\* once with the vector [nuclei, -u, target_url], then -t templates_path
\* only when templates_path is non-empty, then the words of the flags in
\* their order; a flags string that cannot be split adds no word and the
\* scan still runs; an empty or null one adds nothing.
C21_ArgumentVector ==
    (fuzz.scanned.status # "none" /\ fuzz.args.extra_flags_str.ty \in {"null", "str"}) =>
        /\ Cardinality(ScansSpawned) = 1
        /\ fuzz.command =
                <<PyStr("nuclei"), PyStr("-u"), fuzz.args.target_url>>
                \o (IF fuzz.args.templates_path \in {PyNull, PyStr("")}
                    THEN <<>>
                    ELSE <<PyStr("-t"), fuzz.args.templates_path>>)
                \o ExpectedFlagWords(fuzz.args.extra_flags_str)

C21_Witness ==
    /\ fuzz.scanned = CallReturned(TRUE)
    /\ fuzz.args.templates_path = PyStr("tpl")
    /\ fuzz.args.extra_flags_str = PyStr("-v 'x")
    /\ fuzz.command = <<PyStr("nuclei"), PyStr("-u"), PyStr("http://t"), PyStr("-t"), PyStr("tpl")>>
    /\ fuzz.spawned = <<"nuclei -u">>

-----------------------------------------------------------------------------
(* Properties of repetition and order *)

\* the SmartConnect calls made for the j-th entry of the list
ConnectsFor(j) == {k \in 1..Len(esxi.connects) : esxi.connects[k] = j}

\* no entry is connected to twice, none ahead of its turn, and the
\* connections are made in list order; the scan is spawned at most once
AtMostOnceInOrder ==
    /\ \A j \in 1..Len(esxi.targets) :
        /\ Cardinality(ConnectsFor(j)) <= 1
        /\ j > esxi.i => ConnectsFor(j) = {}
    /\ \A k, l \in 1..Len(esxi.connects) : k < l => esxi.connects[k] < esxi.connects[l]
    /\ \A k, l \in 1..Len(esxi.checks) : k < l => esxi.checks[k].entry < esxi.checks[l].entry
    /\ chk.pc \in {"connect", "cleanup", "returned"} =>
            (esxi.pc = "loop" /\ esxi.checks[Len(esxi.checks)].entry = esxi.i)
    /\ Cardinality(ScansSpawned) <= 1

\* C22: nothing is retried: in one run of the ESXi module an entry of the
\* target list causes at most one connection attempt, and exactly one once
\* it has been processed and its format is valid, whatever the attempt
\* gave; the attempts are made one at a time in list order; and in one run
\* of the web fuzzer the scan is spawned at most once.
C22_NoRetry ==
    /\ AtMostOnceInOrder
    /\ \A j \in 1..Len(esxi.targets) :
        (j < esxi.i /\ esxi.targets[j] \notin MalformedTargets)
            => Cardinality(ConnectsFor(j)) = 1

\* the positions of the list processed so far
ProcessedEntries == {j \in 1..Len(esxi.targets) : j < esxi.i}

FirstOccurrence(str) ==
    CHOOSE j \in ProcessedEntries :
        esxi.targets[j] = str /\ \A h \in ProcessedEntries : esxi.targets[h] = str => j <= h

LastOccurrence(str) ==
    CHOOSE j \in ProcessedEntries :
        esxi.targets[j] = str /\ \A h \in ProcessedEntries : esxi.targets[h] = str => h <= j

-----------------------------------------------------------------------------
(* Properties of repeated logging setup *)

\* the arguments of the latest setup_logging call
LatestSetup == logging.calls[Len(logging.calls)]

\* the root logger a single call with the latest arguments leaves, for
\* some state of the file system
AsAfterOneCall ==
    \E where \in FileSystemCases :
        LET once == setup_logging(NoLogging, LatestSetup.level, LatestSetup.file, where).logging
        IN  /\ logging.handlers = once.handlers
            /\ logging.root_level = once.root_level

\* C24: a second or later call of setup_logging leaves the root logger as
\* a single call with the same arguments would: the level and the format
\* of the latest call, one console sink, at most one file sink, and no two
\* sinks with the same destination.
C24_SetupIsReset ==
    Len(logging.calls) >= 2 =>
        /\ AsAfterOneCall
        /\ \A i, j \in 1..Len(logging.handlers) :
            (logging.handlers[i].kind = logging.handlers[j].kind
             /\ logging.handlers[i].dir = logging.handlers[j].dir
             /\ logging.handlers[i].name = logging.handlers[j].name) => i = j

-----------------------------------------------------------------------------
(* Properties of the ESXi module's outcome at the dispatcher *)

\* the ESXi module runs with its two preconditions met: a non-empty list
\* of targets and the SDK
EsxiPreconditionsHold ==
    /\ mode = "esxi"
    /\ run_calls # <<>>
    /\ EsxiTargetsSetting.ty = "list"
    /\ Truthy(EsxiTargetsSetting)
    /\ host.PYVMOMI_AVAILABLE

\* the run returned normally, and the dispatcher that has finished ended
\* in the succeeded state with exit code 0
ReturnsAndSucceeds ==
    /\ module_result.status # "none" => module_result = ModReturned
    /\ stage \in {"succeeded", "failed"} => (stage = "succeeded" /\ exit_code = 0)

\* for lists of target strings no per-target outcome reaches the dispatcher
StringTargetsContained ==
    (EsxiPreconditionsHold /\ TargetsAreStrings) => ReturnsAndSucceeds

\* C25: once the ESXi module's two preconditions hold, its run returns
\* normally for every target list and every combination of per-target
\* outcomes, and `run esxi` ends in the succeeded state with exit code 0.
C25_FailuresNeverReachDispatcher ==
    EsxiPreconditionsHold => ReturnsAndSucceeds

=============================================================================
